---- MODULE Spec2Model ----
(***************************************************************************)
(* A model of DataSet::kmeans3d (src/src/lib.rs), the k-means clustering   *)
(* of the first three columns of a numeric matrix.                          *)
(*                                                                          *)
(* Numbers.  The code computes in f32.  The model computes exactly, in      *)
(* fixed point: the integer v stands for the real number v / Den.  Every    *)
(* input coordinate is a whole number of tenths, and Den is ten times the   *)
(* least common multiple of the possible cluster sizes, so that the one     *)
(* division of the code (a coordinate by a cluster's count) is exact.       *)
(* f32 rounding (about 1e-7 relative) is therefore left out; on the inputs  *)
(* of the model two exact values differ by at least 1/Den, far above both   *)
(* rounding error and the 1e-4 threshold of the convergence test.           *)
(*                                                                          *)
(* Indices.  Rows, clusters and labels are 0-based as in the code: a        *)
(* matrix is a function from 0..nrows-1 to rows.  A row is a tuple, so the  *)
(* code's row[0], row[1], row[2] are row[1], row[2], row[3] here.           *)
(***************************************************************************)
EXTENDS Integers, Sequences, FiniteSets

\* Largest number of rows of the enumerated data sets.
MaxN == 3
\* Largest max_iter passed to kmeans3d.
MaxIter == 3

----------------------------------------------------------------------------
(* Fixed-point numbers *)

Max(a, b) == IF a >= b THEN a ELSE b
Min(a, b) == IF a <= b THEN a ELSE b
Abs(x) == IF x < 0 THEN -x ELSE x

RECURSIVE Gcd(_, _)
Gcd(a, b) == IF b = 0 THEN a ELSE Gcd(b, a % b)

RECURSIVE LcmUpTo(_)
LcmUpTo(m) ==
    IF m <= 1 THEN 1
    ELSE LET l == LcmUpTo(m - 1) IN (l * m) \div Gcd(l, m)

\* The test data of the repository has four rows.
MaxRows == Max(MaxN, 4)

\* One tenth, in model units.
Tenth == LcmUpTo(MaxRows)
\* The denominator of the fixed-point numbers: v stands for v / Den.
Den == 10 * Tenth

\* The number with the decimal expansion t / 10.
F(t) == t * Tenth

\* A row of the model's matrices from its tenths.
RowOf(t) == [j \in DOMAIN t |-> F(t[j])]

\* x / count as f32, line 118; exact on the model's numbers.
FDiv(x, count) == x \div count

----------------------------------------------------------------------------
(* Matrices: Array2<f32> *)

NRows(m) == Cardinality(DOMAIN m)

\* Array2::<f32>::zeros((rows, 3))
Zero3 == <<0, 0, 0>>
Zeros(rows) == [r \in 0..(rows - 1) |-> Zero3]

\* DataSet::numeric_view: the first min(ncols, data.ncols()) columns.
numeric_view(m, ncols) ==
    [i \in DOMAIN m |-> SubSeq(m[i], 1, Min(ncols, Len(m[i])))]

----------------------------------------------------------------------------
(* Inputs *)

\* The rows the enumerated data sets are made of: three finite coordinates
\* and a fourth column that clustering must ignore.  (A matrix of fewer than
\* three columns, or one holding NaN, is no point set and is not enumerated.)  The third row is at the same
\* distance from the first two.
RowUniverse ==
    { RowOf(t) : t \in { <<0, 0, 0, 50>>, <<20, 20, 0, 50>>, <<10, 10, 20, 50>> } }

\* The data of tests::test_kmeans_basic.
TestData ==
    [i \in 0..3 |->
        RowOf(CASE i = 0 -> <<0, 0, 0>>
                [] i = 1 -> <<1, 0, 0>>
                [] i = 2 -> <<90, 90, 90>>
                [] i = 3 -> <<91, 91, 91>>)]

DataSets ==
    UNION { [0..(n - 1) -> RowUniverse] : n \in 0..MaxN } \cup { TestData }

\* All orders Vec::shuffle can leave 0..n-1 in.
Shuffles(n) ==
    { p \in [0..(n - 1) -> 0..(n - 1)] :
        \A i, j \in 0..(n - 1) : p[i] = p[j] => i = j }

----------------------------------------------------------------------------
(* Distance and the nearest centroid *)

\* DataSet::e_dist3.  A distance is kept as its radicand: the value r stands
\* for sqrt(r / Den^2).  Square root is strictly increasing, so two distances
\* compare as their radicands do.
e_dist3(a, b) ==
    (a[1] - b[1]) * (a[1] - b[1])
    + (a[2] - b[2]) * (a[2] - b[2])
    + (a[3] - b[3]) * (a[3] - b[3])

\* f32::MAX: above every distance between two points of the model.
MaxCoord == F(91)
F32_MAX == 3 * MaxCoord * MaxCoord + 1

\* dist < best_dist, line 98.
DistLessLe(dist, best_dist) == dist <= best_dist
DistLess(dist, best_dist) == dist < best_dist

\* The loop over the centroids, lines 95-102, from centroid ci on.
RECURSIVE NearestFrom(_, _, _, _, _)
NearestFrom(point, cs, ci, best_cluster, best_dist) ==
    IF ci >= NRows(cs) THEN best_cluster
    ELSE LET dist == e_dist3(point, cs[ci])
         IN  IF DistLess(dist, best_dist)
             THEN NearestFrom(point, cs, ci + 1, ci, dist)
             ELSE NearestFrom(point, cs, ci + 1, best_cluster, best_dist)

\* let mut best_cluster = 0, line 92.
FirstCluster == 0

\* Lines 91-103 for one row.
NearestOneBased(row, cs) ==
    NearestFrom(<<row[1], row[2], row[3]>>, cs, 0, FirstCluster, F32_MAX) + 1
Nearest(row, cs) ==
    NearestFrom(<<row[1], row[2], row[3]>>, cs, 0, FirstCluster, F32_MAX)

\* Step 1, lines 90-104.
AssignAll(d, cs) == [i \in DOMAIN d |-> Nearest(d[i], cs)]

----------------------------------------------------------------------------
(* The update of the centroids *)

\* Lines 110-114 from row i on.  row_mut(c) panics when c is no row of
\* new_centroids.
RECURSIVE Accumulate(_, _, _, _, _)
Accumulate(d, asg, i, nc, cnt) ==
    IF i >= NRows(d) THEN [panic |-> FALSE, nc |-> nc, counts |-> cnt]
    ELSE LET c == asg[i]
         IN  IF c \notin DOMAIN nc
             THEN [panic |-> TRUE, nc |-> nc, counts |-> cnt]
             ELSE Accumulate(d, asg, i + 1,
                             [nc EXCEPT ![c] = d[i]],
                             [cnt EXCEPT ![c] = @ + 1])

\* counts[ci] > 0, line 117.
HasPointsMany(count) == count > 1
HasPoints(count) == count > 0

\* Lines 117-123 for cluster ci; dr[ci] is the value gen_range returned.
UpdateOne(d, row, count, dr, ci) ==
    IF HasPoints(count)
    THEN [j \in 1..3 |-> FDiv(row[j], count)]
    ELSE d[dr[ci]]

\* The values gen_range(0..n) of line 121 can return in one run of the loop
\* of line 116: one draw for each cluster the code reseeds.
Draws(kk, n, cnt) ==
    [{ ci \in 0..(kk - 1) : ~HasPoints(cnt[ci]) } -> 0..(n - 1)]

\* (&centroids - &new_centroids).mapv(|x| x.abs()).sum(), lines 127-129.
RECURSIVE SumAbs(_, _, _)
SumAbs(cs, ncs, ci) ==
    IF ci >= NRows(cs) THEN 0
    ELSE Abs(cs[ci][1] - ncs[ci][1]) + Abs(cs[ci][2] - ncs[ci][2])
         + Abs(cs[ci][3] - ncs[ci][3]) + SumAbs(cs, ncs, ci + 1)

Diff(cs, ncs) == SumAbs(cs, ncs, 0)

\* diff < 1e-4, line 130: diff / Den < 1 / EpsInv.
EpsInv == 10000
BelowThresholdInverted(diff) == diff < Den * EpsInv
BelowThreshold(diff) == diff * EpsInv < Den

\* nrows < k, line 70.
NotEnoughOffByOne(nrows, kk) == nrows + 1 < kk
NotEnough(nrows, kk) == nrows < kk

\* for _ in 0..max_iter, line 88: another iteration after `done` of them.
LoopContinuesInclusive(done, mi) == done <= mi
LoopContinues(done, mi) == done < mi

----------------------------------------------------------------------------
(* The state of one call of kmeans3d *)

VARIABLES
    self_data,      \* self.data
    k,              \* the argument k
    max_iter,       \* the argument max_iter
    pc,             \* the place of the call in the function
    data,           \* the local data, line 67
    centroids,      \* line 80
    assignments,    \* line 86
    iter,           \* the number of iterations of the loop of line 88 begun
    new_centroids,  \* line 107
    counts,         \* line 108
    idx,            \* the draws of line 121 in the current iteration, by cluster
    converged,      \* the break of line 131 was taken
    result,         \* what the call returned: "none", "Ok" or "Err"
    returned,       \* the vector inside Ok
    lastAssigned    \* the assignment the last run of step 1 computed

vars == <<self_data, k, max_iter, pc, data, centroids, assignments, iter,
          new_centroids, counts, idx, converged, result, returned, lastAssigned>>

\* A local that has no value yet.
Unset == << >>

nrows == NRows(data)

Init ==
    /\ self_data \in DataSets
    /\ k \in 0..(MaxN + 1)
    /\ max_iter \in 0..MaxIter
    /\ pc = "start"
    /\ data = Unset
    /\ centroids = Unset
    /\ assignments = Unset
    /\ iter = 0
    /\ new_centroids = Unset
    /\ counts = Unset
    /\ idx = Unset
    /\ converged = FALSE
    /\ result = "none"
    /\ returned = Unset
    /\ lastAssigned = Unset

\* Lines 67-72: the view of the data and the test of k.
Enter ==
    /\ pc = "start"
    /\ data' = numeric_view(self_data, 3)
    /\ IF NotEnough(NRows(self_data), k)
       THEN /\ pc' = "done"
            /\ result' = "Err"
       ELSE /\ pc' = "init"
            /\ UNCHANGED result
    /\ UNCHANGED <<self_data, k, max_iter, centroids, assignments, iter,
                   new_centroids, counts, idx, converged, returned, lastAssigned>>

\* Lines 74-86: the shuffle, the initial centroids, the zero assignment.
InitCentroids ==
    /\ pc = "init"
    /\ \E indices \in Shuffles(nrows) :
         centroids' = [ci \in 0..(k - 1) |->
                          IF ci < nrows THEN data[indices[ci]] ELSE Zero3]
    /\ assignments' = [i \in 0..(nrows - 1) |-> 0]
    /\ pc' = "loop"
    /\ UNCHANGED <<self_data, k, max_iter, data, iter, new_centroids, counts,
                   idx, converged, result, returned, lastAssigned>>

\* Line 88: the loop begins another iteration or ends.
LoopHead ==
    /\ pc = "loop"
    /\ IF LoopContinues(iter, max_iter)
       THEN /\ iter' = iter + 1
            /\ pc' = "assign"
       ELSE /\ pc' = "ret"
            /\ UNCHANGED iter
    /\ UNCHANGED <<self_data, k, max_iter, data, centroids, assignments,
                   new_centroids, counts, idx, converged, result, returned,
                   lastAssigned>>

\* Lines 89-104: step 1.
AssignStep ==
    /\ pc = "assign"
    /\ assignments' = AssignAll(data, centroids)
    /\ lastAssigned' = AssignAll(data, centroids)
    /\ pc' = "update"
    /\ UNCHANGED <<self_data, k, max_iter, data, centroids, iter,
                   new_centroids, counts, idx, converged, result, returned>>

\* Lines 106-124: step 2.  The call panics when row_mut is out of bounds
\* (line 112) or gen_range is given the empty range (line 121).
UpdateStep ==
    /\ pc = "update"
    /\ LET acc == Accumulate(data, assignments, 0, Zeros(k), [ci \in 0..(k - 1) |-> 0])
       IN  IF acc.panic \/ (nrows = 0 /\ \E ci \in 0..(k - 1) : ~HasPoints(acc.counts[ci]))
           THEN /\ pc' = "panic"
                /\ UNCHANGED <<new_centroids, counts, idx>>
           ELSE /\ counts' = acc.counts
                /\ \E dr \in Draws(k, nrows, acc.counts) :
                     /\ idx' = dr
                     /\ new_centroids' =
                            [ci \in 0..(k - 1) |->
                                UpdateOne(data, acc.nc[ci], acc.counts[ci], dr, ci)]
                /\ pc' = "check"
    /\ UNCHANGED <<self_data, k, max_iter, data, centroids, assignments, iter,
                   converged, result, returned, lastAssigned>>

\* Lines 126-133: the convergence check.
ConvergenceCheck ==
    /\ pc = "check"
    /\ IF BelowThreshold(Diff(centroids, new_centroids))
       THEN /\ converged' = TRUE
            /\ pc' = "ret"
            /\ UNCHANGED centroids
       ELSE /\ centroids' = new_centroids
            /\ pc' = "loop"
            /\ UNCHANGED converged
    /\ UNCHANGED <<self_data, k, max_iter, data, assignments, iter,
                   new_centroids, counts, idx, result, returned, lastAssigned>>

\* Line 136.
Return ==
    /\ pc = "ret"
    /\ result' = "Ok"
    /\ returned' = assignments
    /\ pc' = "done"
    /\ UNCHANGED <<self_data, k, max_iter, data, centroids, assignments, iter,
                   new_centroids, counts, idx, converged, lastAssigned>>

Next ==
    \/ Enter
    \/ InitCentroids
    \/ LoopHead
    \/ AssignStep
    \/ UpdateStep
    \/ ConvergenceCheck
    \/ Return

Spec == Init /\ [][Next]_vars

----------------------------------------------------------------------------
(* What the properties speak of, stated without the code's loops *)

Returned == pc = "done" /\ result = "Ok"
Terminated == pc \in {"done", "panic"}
ValidInput == 1 <= k /\ k <= NRows(self_data)

\* The rows an assignment gives to cluster ci.
Members(asg, ci) == { i \in DOMAIN asg : asg[i] = ci }

RECURSIVE SumOver(_, _, _)
SumOver(d, S, j) ==
    IF S = {} THEN 0
    ELSE LET i == CHOOSE x \in S : TRUE
         IN  d[i][j] + SumOver(d, S \ {i}, j)

\* The coordinate-wise arithmetic mean of the rows S of d (S not empty).
MeanOf(d, S) == [j \in 1..3 |-> SumOver(d, S, j) \div Cardinality(S)]

\* c is a centroid of cs nearest to row p, and the first such.
IsNearestLowest(p, c, cs) ==
    /\ c \in DOMAIN cs
    /\ \A o \in DOMAIN cs :
         /\ e_dist3(p, cs[c]) <= e_dist3(p, cs[o])
         /\ o < c => e_dist3(p, cs[c]) < e_dist3(p, cs[o])

\* Every centroid is the mean of the rows step 1 has just given it.
MeanEquilibrium ==
    /\ k >= 1
    /\ \A ci \in 0..(k - 1) :
         /\ Members(assignments, ci) # {}
         /\ centroids[ci] = MeanOf(data, Members(assignments, ci))

SameGroups(labels) ==
    /\ labels[0] = labels[1]
    /\ labels[2] = labels[3]
    /\ labels[0] # labels[2]

----------------------------------------------------------------------------
(* Properties *)

\* C1: on a valid input (1 <= k <= n) the call never panics, and when it has
\* returned it has returned Ok with one label per row, each in 0..k-1.
ValidInputReturnsLabels ==
    ValidInput =>
        /\ pc # "panic"
        /\ pc = "done" =>
             /\ result = "Ok"
             /\ DOMAIN returned = 0..(NRows(self_data) - 1)
             /\ \A i \in DOMAIN returned : returned[i] \in 0..(k - 1)

\* C1 witness: a call with several clusters has returned, and the highest
\* label is in use.
ValidInputReturnsLabelsWitness ==
    /\ Returned /\ ValidInput /\ k >= 2 /\ max_iter >= 1
    /\ \E i \in DOMAIN returned : returned[i] = k - 1

\* C2: with k above the number of rows the call is at its start or has
\* returned the error; no centroid, assignment or iteration ever exists.
TooManyClustersFailsFast ==
    NRows(self_data) < k =>
        /\ pc \in {"start", "done"}
        /\ pc = "done" => (result = "Err" /\ returned = Unset)
        /\ centroids = Unset
        /\ assignments = Unset
        /\ iter = 0

\* C2 witness: a call with k = n + 1 and a positive max_iter has returned
\* the error.
TooManyClustersFailsFastWitness ==
    /\ pc = "done" /\ result = "Err"
    /\ k = NRows(self_data) + 1 /\ NRows(self_data) >= 1 /\ max_iter >= 1

\* C3: with k = 0 a call that has ended has returned the error: it has
\* neither returned an assignment nor panicked.
ZeroClustersRejected ==
    (k = 0 /\ Terminated) => (pc = "done" /\ result = "Err")

\* C4: with max_iter = 0 and 1 <= k <= n the call returns Ok, and the label
\* of every row is the first nearest of the initial centroids.
ZeroIterationsNearestInitial ==
    (pc = "done" /\ max_iter = 0 /\ ValidInput) =>
        /\ result = "Ok"
        /\ DOMAIN returned = DOMAIN data
        /\ \A i \in DOMAIN data : IsNearestLowest(data[i], returned[i], centroids)

\* C5: on the test data with k = 2 and max_iter >= 2, whatever the shuffle,
\* the call returns labels that put rows 0 and 1 together, rows 2 and 3
\* together, and the two pairs apart.
TestDataGrouped ==
    (pc = "done" /\ self_data = TestData /\ k = 2 /\ max_iter >= 2) =>
        (result = "Ok" /\ SameGroups(returned))

\* C5 witness: such a call has returned after exactly two iterations without
\* converging.
TestDataGroupedWitness ==
    /\ Returned /\ self_data = TestData /\ k = 2
    /\ max_iter = 2 /\ iter = 2 /\ ~converged
    /\ SameGroups(returned)

\* C6: when the centroids at the start of an iteration are the means of the
\* rows step 1 gives them, the difference computed after the update is below
\* the threshold.
EquilibriumConverges ==
    (pc = "check" /\ MeanEquilibrium) =>
        BelowThreshold(Diff(centroids, new_centroids))

\* C7: after the update, the new centroid of every cluster that has rows is
\* the coordinate-wise mean of its rows.
UpdateIsMean ==
    pc = "check" =>
        \A ci \in 0..(k - 1) :
            Members(assignments, ci) # {} =>
                new_centroids[ci] = MeanOf(data, Members(assignments, ci))

\* C8: after step 1 the label of every row is a centroid at the least
\* distance from the row, and the first of those.
AssignedNearestLowest ==
    (pc = "update" /\ k >= 1) =>
        /\ DOMAIN assignments = DOMAIN data
        /\ \A i \in DOMAIN data :
             IsNearestLowest(data[i], assignments[i], centroids)

\* C8 witness: step 1 has run on a row that has two different centroids at
\* the same least distance.
AssignedNearestLowestWitness ==
    /\ pc = "update"
    /\ \E i \in DOMAIN data : \E c1, c2 \in DOMAIN centroids :
         /\ c1 < c2
         /\ centroids[c1] # centroids[c2]
         /\ e_dist3(data[i], centroids[c1]) = e_dist3(data[i], centroids[c2])
         /\ assignments[i] = c1

\* C9: after the update, every cluster without rows has had one draw from
\* 0..n-1 and its new centroid is the drawn row; no cluster with rows has had
\* a draw.
EmptyClusterReseeded ==
    pc = "check" =>
        \A ci \in 0..(k - 1) :
            IF Members(assignments, ci) = {}
            THEN /\ ci \in DOMAIN idx
                 /\ idx[ci] \in 0..(nrows - 1)
                 /\ new_centroids[ci] = <<data[idx[ci]][1], data[idx[ci]][2],
                                          data[idx[ci]][3]>>
            ELSE ci \notin DOMAIN idx

\* C9 witness: an empty cluster has been reseeded to a row away from zero
\* and from the cluster's previous centroid, while another cluster has rows.
EmptyClusterReseededWitness ==
    /\ pc = "check"
    /\ \E ci, cj \in 0..(k - 1) :
         /\ Members(assignments, ci) = {}
         /\ Members(assignments, cj) # {}
         /\ new_centroids[ci] # Zero3
         /\ new_centroids[ci] # centroids[ci]

\* The steps left to a call, counted generously: eight for every iteration
\* the loop may still begin, and the steps from pc to the end of the current
\* iteration or of the call.
StepsLeft ==
    8 * (max_iter - iter)
    + CASE pc = "start"  -> 7
        [] pc = "init"   -> 6
        [] pc = "assign" -> 5
        [] pc = "update" -> 4
        [] pc = "check"  -> 3
        [] pc = "loop"   -> 2
        [] pc = "ret"    -> 1
        [] OTHER         -> 0

StoppingInv ==
    /\ iter <= max_iter
    /\ converged => iter >= 1
    /\ Returned =>
         /\ iter = max_iter \/ converged
         /\ iter >= 1 => returned = lastAssigned

\* C10: the loop never begins more than max_iter iterations, and every step
\* of the call lowers the number of steps left, which is never negative, so
\* the call ends; when it has returned Ok it has either run max_iter
\* iterations or taken the break, and what it returned is the assignment of
\* the last step 1 that ran.
StoppingRule ==
    /\ [](StoppingInv /\ StepsLeft >= 0)
    /\ [][StepsLeft' < StepsLeft]_vars

\* C10 witness: a call has returned by the break, before max_iter iterations
\* and after more than one.
StoppingRuleWitness ==
    Returned /\ converged /\ iter >= 2 /\ iter < max_iter

====
